---- MODULE Spec2Model ----
(***************************************************************************)
(* Model of the AutoSaveWithAI plugin (src/AutoSaveWithAI.py): the         *)
(* filename pipeline save_file_with_ai_name, the LiteLLMClient boundary    *)
(* and the per-view timer table of AutoSaveEventListener.                  *)
(*                                                                         *)
(* Text is modelled as a sequence of one-character strings, so that the    *)
(* string transformations are computed character by character.             *)
(***************************************************************************)
EXTENDS Integers, Sequences, FiniteSets, TLC

\* ------------------------------------------------------------------ bounds
NumViews == 1
MaxScheduled == 2
MaxQueued == 1

Views == 1..NumViews

\* --------------------------------------------------------- string helpers
\* Python None: distinct from every text, whose elements are single characters
None == <<"None">>

\* Python truthiness of an optional text
Truthy(s) == s # None /\ s # <<>>

DigitChars == <<"0", "1", "2", "3", "4", "5", "6", "7", "8", "9">>

IsDigit(c) == \E i \in 1..10 : DigitChars[i] = c

\* str.isspace for the characters of the model's alphabet
IsSpace(c) == c \in {" ", "\t", "\n"}

RECURSIVE LStrip(_, _)
LStrip(s, chars) ==
    IF s # <<>> /\ Head(s) \in chars THEN LStrip(Tail(s), chars) ELSE s

RECURSIVE RStrip(_, _)
RStrip(s, chars) ==
    IF s # <<>> /\ s[Len(s)] \in chars
    THEN RStrip(SubSeq(s, 1, Len(s) - 1), chars)
    ELSE s

\* str.strip(chars)
StripChars(s, chars) == RStrip(LStrip(s, chars), chars)

\* str.strip() with no argument: whitespace
Strip(s) == StripChars(s, {" ", "\t", "\n"})

\* str.replace(old, new) for a single character old
ReplaceChar(s, old, new) == [i \in 1..Len(s) |-> IF s[i] = old THEN new ELSE s[i]]

\* re.sub('[set]', '', s)
DeleteChars(s, chars) == SelectSeq(s, LAMBDA c : c \notin chars)

Contains(s, c) == \E i \in 1..Len(s) : s[i] = c

StartsWith(s, p) == Len(s) >= Len(p) /\ SubSeq(s, 1, Len(p)) = p

\* "{}".format(n) for a natural number n
RECURSIVE IntToStr(_)
IntToStr(n) ==
    IF n < 10 THEN <<DigitChars[n + 1]>>
    ELSE IntToStr(n \div 10) \o <<DigitChars[(n % 10) + 1]>>

\* strftime zero-padded field of the given width
RECURSIVE ZeroPad(_, _)
ZeroPad(n, width) ==
    IF width = 0 THEN <<>>
    ELSE ZeroPad(n \div 10, width - 1) \o <<DigitChars[(n % 10) + 1]>>

\* ------------------------------------------------- pure pipeline functions
\* str.split(): maximal runs of non-whitespace characters
RECURSIVE SplitWords(_, _, _)
SplitWords(s, cur, acc) ==
    IF s = <<>> THEN (IF cur = <<>> THEN acc ELSE Append(acc, cur))
    ELSE IF IsSpace(Head(s))
         THEN SplitWords(Tail(s), <<>>, IF cur = <<>> THEN acc ELSE Append(acc, cur))
         ELSE SplitWords(Tail(s), Append(cur, Head(s)), acc)

RECURSIVE JoinWords(_)
JoinWords(ws) ==
    IF ws = <<>> THEN <<>>
    ELSE IF Len(ws) = 1 THEN ws[1]
    ELSE ws[1] \o <<" ">> \o JoinWords(Tail(ws))

WordLimit == 250

extract_first_words(text, word_limit) ==
    LET words == SplitWords(text, <<>>, <<>>)
        n == IF Len(words) < word_limit THEN Len(words) ELSE word_limit
    IN  JoinWords(SubSeq(words, 1, n))

Untitled == <<"u", "n", "t", "i", "t", "l", "e", "d", ".", "t", "x", "t">>
DotTxt == <<".", "t", "x", "t">>
UnsafeChars == {"<", ">", ":", "\"", "|", "?", "*"}

\* variant: only the empty name falls back to untitled.txt
sanitize_filename_empty_only(raw) ==
    LET f1 == ReplaceChar(ReplaceChar(raw, "/", "_"), "\\", "_")
        f2 == DeleteChars(f1, UnsafeChars)
        f3 == StripChars(f2, {".", " "})
        f4 == IF f3 = <<>> THEN Untitled ELSE f3
    IN  IF ~Contains(f4, ".") THEN f4 \o DotTxt ELSE f4

sanitize_filename(raw) ==
    LET f1 == ReplaceChar(ReplaceChar(raw, "/", "_"), "\\", "_")
        f2 == DeleteChars(f1, UnsafeChars)
        f3 == StripChars(f2, {".", " "})
        f4 == IF f3 = <<>> \/ Strip(DeleteChars(f3, {"_"})) = <<>> THEN Untitled ELSE f3
    IN  IF ~Contains(f4, ".") THEN f4 \o DotTxt ELSE f4

\* datetime.now().strftime("%Y%m%d-%H%M%S")
strftime(dt) ==
    ZeroPad(dt.Y, 4) \o ZeroPad(dt.m, 2) \o ZeroPad(dt.d, 2) \o <<"-">>
    \o ZeroPad(dt.H, 2) \o ZeroPad(dt.M, 2) \o ZeroPad(dt.S, 2)

\* variant: the format string "%Y%m%d%H%M%S", without the separator
get_timestamp_filename_nodash(dt) ==
    <<"a", "u", "t", "o", "-", "n", "o", "t", "e", "s", "-">>
    \o ZeroPad(dt.Y, 4) \o ZeroPad(dt.m, 2) \o ZeroPad(dt.d, 2)
    \o ZeroPad(dt.H, 2) \o ZeroPad(dt.M, 2) \o ZeroPad(dt.S, 2)
    \o <<".", "t", "x", "t">>

\* "auto-notes-{}.txt".format(timestamp)
get_timestamp_filename(dt) ==
    <<"a", "u", "t", "o", "-", "n", "o", "t", "e", "s", "-">> \o strftime(dt)
    \o <<".", "t", "x", "t">>

\* the literal prefix of "auto-notes-{}".format(filename)
AutoNotes == <<"a", "u", "t", "o", "-", "n", "o", "t", "e", "s", "-">>

\* the sanitizing and prefixing of an AI-derived name in save_file_with_ai_name
ai_derived_filename(ai_filename) == AutoNotes \o sanitize_filename(ai_filename)

\* os.path.splitext on the last path component
LastDot(s) ==
    IF Contains(s, ".") THEN CHOOSE i \in 1..Len(s) : s[i] = "." /\ \A j \in (i + 1)..Len(s) : s[j] # "."
    ELSE 0

splitext(p) ==
    LET i == LastDot(p)
    IN  IF i = 0 \/ (\A j \in 1..(i - 1) : p[j] = ".")
        THEN <<p, <<>>>>
        ELSE <<SubSeq(p, 1, i - 1), SubSeq(p, i, Len(p))>>

Numbered(p, counter) ==
    LET be == splitext(p) IN be[1] \o <<"-">> \o IntToStr(counter) \o be[2]

\* the duplicate-handling loop: the smallest counter >= 1 whose path is free
RECURSIVE ProbeCounter(_, _, _)
ProbeCounter(p, counter, existing) ==
    IF Numbered(p, counter) \in existing
    THEN ProbeCounter(p, counter + 1, existing)
    ELSE counter

\* variant: the path is taken as it is, whether or not a file exists there
resolve_path_no_probe(filename, existing) == filename

resolve_path(filename, existing) ==
    IF filename \in existing
    THEN Numbered(filename, ProbeCounter(filename, 1, existing))
    ELSE filename

\* ------------------------------------------------------------ environment
Threads == {"main", "async"}

gpt4 == <<"g", "p", "t", "-", "4">>
claude == <<"a", "n", "t", "h", "r", "o", "p", "i", "c", "/", "c">>
llama == <<"o", "l", "l", "a", "m", "a", "/", "l">>
key == <<"k">>
base == <<"h", "t", "t", "p", ":", "/", "/", "b">>
dir == <<"~", "/", "n">>

\* the settings file and the import-time flag, fixed for one session
Cfg(timer, save_dir, overwrite, model, okey, akey, abase, avail) ==
    [auto_save_timer |-> timer, save_directory |-> save_dir,
     overwrite_default_save |-> overwrite, llm_model |-> model,
     openai_api_key |-> okey, anthropic_api_key |-> akey, api_base |-> abase,
     LITELLM_AVAILABLE |-> avail]

Configs ==
    { Cfg(5, dir, TRUE, gpt4, key, None, base, TRUE),
      Cfg(0, dir, FALSE, llama, None, None, None, TRUE),
      Cfg(5, <<>>, TRUE, claude, None, key, None, TRUE),
      Cfg(0, dir, TRUE, gpt4, key, None, None, FALSE),
      Cfg(-1, dir, FALSE, claude, None, key, base, TRUE) }

\* buffer contents: empty, whitespace-only, text
Contents == { <<>>, <<" ", "\n">>, <<"h", "i">> }

\* the wall clock read by datetime.now()
Clock == { [Y |-> 2026, m |-> 11, d |-> 2, H |-> 10, M |-> 15, S |-> 0] }

\* what litellm.completion can do: raise, or return a response
Replies ==
    { <<" ", "a", "/", "b", " ">>,
      <<" ", "\n">>,
      <<"2", "0", "2", "6", "1", "1", "0", "2", "-", "1", "0", "1", "5", "0", "0", ".", "t", "x", "t">> }

Raises == {"Timeout", "APIConnectionError", "AuthenticationError", "JSONDecodeError", "KeyError"}

\* the session's provider: a timeout, a malformed body, or a reply
Outcomes ==
    [kind : {"Timeout", "JSONDecodeError"}, text : {None}] \cup [kind : {"ok"}, text : Replies]

NoOutcome == [kind |-> "none", text |-> None]

\* ------------------------------------------------------------------ state
VARIABLES
    config,      \* the settings and LITELLM_AVAILABLE
    valid,       \* view.is_valid(): FALSE once the view is closed
    file_name,   \* view.file_name(): None for an unnamed buffer
    content,     \* the buffer text
    scratch,     \* the view's scratch flag
    timers,      \* keys of AutoSaveEventListener.timers (every value is True)
    stale,       \* outstanding set_timeout_async callbacks armed before the latest edit
    fresh,       \* 1 while the callback armed by the latest edit is outstanding
    queued,      \* on_modified_async notifications not yet delivered
    run,         \* per host thread: the save_file_with_ai_name call blocked in completion()
    ret,         \* how save_file_with_ai_name ended, if the last step ended one
    files,       \* the save directory: file name -> file content
    dir_exists,  \* whether the save directory exists
    timer_writes, \* per view: files written by runs that auto_save_callback started
    probe        \* one application of a function of the pipeline to chosen inputs

plugin == <<config, valid, file_name, content, scratch, timers, stale, fresh,
            queued, run, ret, files, dir_exists, timer_writes>>

vars == <<plugin, probe>>

NoProbe == [fn |-> "none"]

IdleRun ==
    [pc |-> "idle", view |-> 0, content |-> None, excerpt |-> None]

\* result: what the call returned ("raised": an exception left it); notice: the
\* error_message or status_message it showed; failed: the provider gave no name
NoRet == [view |-> 0, result |-> "none", notice |-> "none", failed |-> FALSE]

Init ==
    /\ config \in Configs
    /\ valid = [v \in Views |-> TRUE]
    /\ file_name = [v \in Views |-> None]
    /\ content \in [Views -> Contents]
    /\ scratch = [v \in Views |-> TRUE]
    /\ timers = {}
    /\ stale = [v \in Views |-> 0]
    /\ fresh = [v \in Views |-> 0]
    /\ queued = [v \in Views |-> 0]
    /\ run = [t \in Threads |-> IdleRun]
    /\ ret = NoRet
    /\ files = << >>
    /\ dir_exists = FALSE
    /\ timer_writes = [v \in Views |-> 0]
    /\ probe = NoProbe

\* ------------------------------------------------------- LiteLLMClient
\* the key handed to LiteLLMClient by save_file_with_ai_name
ApiKey(cfg) ==
    IF StartsWith(cfg.llm_model, <<"g", "p", "t", "-">>)
       \/ StartsWith(cfg.llm_model, <<"o", "p", "e", "n", "a", "i", "/">>)
    THEN cfg.openai_api_key
    ELSE IF StartsWith(cfg.llm_model, <<"a", "n", "t", "h", "r", "o", "p", "i", "c", "/">>)
         THEN cfg.anthropic_api_key
         ELSE None

\* whether generate_filename reaches completion(**kwargs)
CallsProvider(avail, api_key, api_base) == avail

\* variant: an except clause that names the timeout only
Caught_timeout_only(kind) == kind = "Timeout"

\* the except clause of generate_filename: every raised kind is an Exception
Caught(kind) == kind \in Raises

\* generate_filename, given what completion() does
generate_filename(avail, o) ==
    IF ~avail THEN [raised |-> FALSE, value |-> None]
    ELSE IF o.kind = "ok" THEN [raised |-> FALSE, value |-> Strip(o.text)]
    ELSE IF Caught(o.kind) THEN [raised |-> FALSE, value |-> None]
    ELSE [raised |-> TRUE, value |-> None]

\* --------------------------------------------------- save_file_with_ai_name
\* variant: the run goes on without the save_directory check
StartResult_no_dir_check(v, mk) ==
    IF Truthy(file_name[v])
    THEN [kind |-> "return", notice |-> "none", mkdir |-> FALSE]
    ELSE IF mk = "OSError"
    THEN [kind |-> "raised", notice |-> "none", mkdir |-> FALSE]
    ELSE IF Strip(content[v]) = <<>>
    THEN [kind |-> "return", notice |-> "none", mkdir |-> TRUE]
    ELSE IF CallsProvider(config.LITELLM_AVAILABLE, ApiKey(config), config.api_base)
    THEN [kind |-> "call", notice |-> "none", mkdir |-> TRUE]
    ELSE [kind |-> "name", notice |-> "none", mkdir |-> TRUE]

\* lines 112-172: everything up to the provider call
StartResult(v, mk) ==
    IF Truthy(file_name[v])
    THEN [kind |-> "return", notice |-> "none", mkdir |-> FALSE]
    ELSE IF ~Truthy(config.save_directory)
    THEN [kind |-> "return", notice |-> "error", mkdir |-> FALSE]
    ELSE IF mk = "OSError"
    THEN [kind |-> "raised", notice |-> "none", mkdir |-> FALSE]
    ELSE IF Strip(content[v]) = <<>>
    THEN [kind |-> "return", notice |-> "none", mkdir |-> TRUE]
    ELSE IF CallsProvider(config.LITELLM_AVAILABLE, ApiKey(config), config.api_base)
    THEN [kind |-> "call", notice |-> "none", mkdir |-> TRUE]
    ELSE [kind |-> "name", notice |-> "none", mkdir |-> TRUE]

\* variant: the failure branch goes through the sanitizer's own fallback
ChooseFilename_untitled(ai, dt) ==
    IF Truthy(ai) THEN ai_derived_filename(ai) ELSE ai_derived_filename(<<>>)

\* lines 174-185: the AI-derived name, or the timestamp fallback
ChooseFilename(ai, dt) ==
    IF Truthy(ai) THEN ai_derived_filename(ai) ELSE get_timestamp_filename(dt)

\* what the caller does when the pipeline returns: auto_save_callback, the
\* only caller on the async thread, removes the timer reference
AfterReturn(t, v) == IF t = "async" THEN timers \ {v} ELSE timers

\* variant: the view is not retargeted after the write
Retarget_skipped(v, full_path) == file_name

\* view.retarget(full_path)
Retarget(v, full_path) == [file_name EXCEPT ![v] = full_path]

\* lines 172-217: generate_filename returns, then the synchronous rest of the
\* pipeline (name, resolve, write, retarget) and the return to the caller
Finish(t, r, o, dt, ok) ==
    LET g == generate_filename(config.LITELLM_AVAILABLE, o)
        filename == ChooseFilename(g.value, dt)
        full_path == resolve_path(filename, DOMAIN files)
        done == [NoRet EXCEPT !.view = r.view]
        named == [done EXCEPT !.failed = ~Truthy(g.value)]
    IN  /\ run' = [run EXCEPT ![t] = IdleRun]
        /\ IF g.raised
           THEN /\ ret' = [done EXCEPT !.result = "raised"]
                /\ UNCHANGED <<files, file_name, scratch, timers, timer_writes>>
           ELSE /\ timers' = AfterReturn(t, r.view)
                /\ IF ok
                   THEN /\ files' = [p \in DOMAIN files \cup {full_path} |->
                                       IF p = full_path THEN r.content ELSE files[p]]
                        /\ timer_writes' = [timer_writes EXCEPT ![r.view] =
                                              IF t = "async" THEN @ + 1 ELSE @]
                        /\ file_name' = Retarget(r.view, full_path)
                        /\ scratch' = [scratch EXCEPT ![r.view] = FALSE]
                        /\ ret' = [named EXCEPT !.result = "True", !.notice = "status"]
                   ELSE /\ ret' = [named EXCEPT !.result = "False", !.notice = "error"]
                        /\ UNCHANGED <<files, file_name, scratch, timer_writes>>

\* os.makedirs(save_dir, exist_ok=True), when the run gets to it, can fail only
\* while the directory is missing
MakedirsOutcomes(v) ==
    IF Truthy(file_name[v]) \/ ~Truthy(config.save_directory) \/ dir_exists
    THEN {"ok"}
    ELSE {"ok", "OSError"}

\* open(full_path, 'w') and f.write(content) succeed or raise
WriteOutcomes(reached) == IF reached THEN BOOLEAN ELSE {TRUE}

\* enter save_file_with_ai_name(view) on thread t
Begin(t, v) ==
    \E mk \in MakedirsOutcomes(v), dt \in Clock :
      \E ok \in WriteOutcomes(StartResult(v, mk).kind = "name") :
        LET r == StartResult(v, mk)
            r0 == [IdleRun EXCEPT !.view = v, !.content = content[v],
                             !.excerpt = extract_first_words(content[v], WordLimit)]
            done == [NoRet EXCEPT !.view = v]
        IN  /\ dir_exists' = (dir_exists \/ r.mkdir)
            /\ CASE r.kind = "return" ->
                      /\ ret' = [done EXCEPT !.result = "False", !.notice = r.notice]
                      /\ timers' = AfterReturn(t, v)
                      /\ UNCHANGED <<run, files, file_name, scratch, timer_writes>>
                 [] r.kind = "raised" ->
                      /\ ret' = [done EXCEPT !.result = "raised"]
                      /\ UNCHANGED <<run, files, file_name, scratch, timers, timer_writes>>
                 [] r.kind = "call" ->
                      /\ run' = [run EXCEPT ![t] = [r0 EXCEPT !.pc = "call"]]
                      /\ ret' = NoRet
                      /\ UNCHANGED <<files, file_name, scratch, timers, timer_writes>>
                 [] r.kind = "name" -> Finish(t, r0, NoOutcome, dt, ok)

\* completion() returns or raises on thread t and the run goes on to its end
provider_returns(t) ==
    /\ run[t].pc = "call"
    /\ \E o \in Outcomes, dt \in Clock :
         \E ok \in WriteOutcomes(~generate_filename(config.LITELLM_AVAILABLE, o).raised) :
            Finish(t, run[t], o, dt, ok)
    /\ UNCHANGED <<probe, config, valid, content, stale, fresh, queued, dir_exists>>

\* ------------------------------------------------ host events and handlers
\* variant: the disabled value 0 passes the timer check
Arms_zero_passes(timer_seconds, v) == timer_seconds >= 0 /\ ~Truthy(file_name[v])

\* lines 268-276: whether on_modified_async goes on to set a timer
Arms(timer_seconds, v) == timer_seconds > 0 /\ ~Truthy(file_name[v])

\* the sum of a per-view counter
RECURSIVE Total(_, _)
Total(f, S) ==
    IF S = {} THEN 0
    ELSE LET v == CHOOSE x \in S : TRUE IN f[v] + Total(f, S \ {v})

\* lines 266-308 of on_modified_async: record the timer, schedule the callback
Handle(v) ==
    IF Arms(config.auto_save_timer, v)
    THEN /\ Total(stale, Views) + Total(fresh, Views) < MaxScheduled
         /\ timers' = timers \cup {v}
         /\ stale' = [stale EXCEPT ![v] = @ + fresh[v]]
         /\ fresh' = [fresh EXCEPT ![v] = 1]
    ELSE UNCHANGED <<timers, stale, fresh>>

\* the user edits the buffer: the async thread runs on_modified_async at once
\* when it is free, and the host queues the notification when it is busy.
\* The plugin reads the text of unnamed views only (lines 115, 135, 230), so
\* the text of a named view is kept as it was when the view got its name
Modify(v, c) ==
    /\ valid[v]
    /\ run["main"].pc = "idle"
    /\ content' = IF Truthy(file_name[v]) THEN content ELSE [content EXCEPT ![v] = c]
    /\ IF run["async"].pc = "idle" /\ queued[v] = 0
       THEN Handle(v) /\ queued' = queued
       ELSE /\ Total(queued, Views) < MaxQueued
            /\ queued' = [queued EXCEPT ![v] = @ + 1]
            /\ UNCHANGED <<timers, stale, fresh>>
    /\ ret' = NoRet
    /\ UNCHANGED <<probe, config, valid, file_name, scratch, run, files, dir_exists,
                   timer_writes>>

\* AutoSaveEventListener.on_modified_async for a queued notification
on_modified_async(v) ==
    /\ queued[v] > 0
    /\ run["async"].pc = "idle"
    /\ queued' = [queued EXCEPT ![v] = @ - 1]
    /\ Handle(v)
    /\ ret' = NoRet
    /\ UNCHANGED <<probe, config, valid, file_name, content, scratch, run, files, dir_exists,
                   timer_writes>>

\* variant: the callback goes on only when its view has a name
CallbackProceeds_named_only(v) == valid[v] /\ Truthy(file_name[v]) /\ v \in timers

\* variant: the callback does not look its view up in the timer table
CallbackProceeds_no_lookup(v) == valid[v] /\ ~Truthy(file_name[v])

\* lines 290-298: the checks of auto_save_callback at fire time
CallbackProceeds(v) == valid[v] /\ ~Truthy(file_name[v]) /\ v \in timers

\* auto_save_callback run by set_timeout_async on the async thread
Fire(v) ==
    /\ run["async"].pc = "idle"
    /\ IF CallbackProceeds(v)
       THEN Begin("async", v)
       ELSE /\ ret' = NoRet
            /\ UNCHANGED <<timers, run, files, dir_exists, file_name, scratch, timer_writes>>
    /\ UNCHANGED <<probe, config, valid, content, queued>>

\* a callback armed before the latest edit of the view fires
auto_save_callback_stale(v) ==
    /\ stale[v] > 0
    /\ stale' = [stale EXCEPT ![v] = @ - 1]
    /\ fresh' = fresh
    /\ Fire(v)

\* the callback armed by the latest edit of the view fires
auto_save_callback(v) ==
    /\ fresh[v] > 0
    /\ fresh' = [fresh EXCEPT ![v] = 0]
    /\ stale' = stale
    /\ Fire(v)

\* variant: on_close leaves the view's entry in the timer table
on_close_keeps_entry(v) ==
    /\ valid[v]
    /\ run["main"].pc = "idle"
    /\ valid' = [valid EXCEPT ![v] = FALSE]
    /\ queued' = [queued EXCEPT ![v] = 0]
    /\ content' = [content EXCEPT ![v] = <<>>]
    /\ ret' = NoRet
    /\ UNCHANGED <<probe, config, file_name, scratch, timers, stale, fresh, run, files,
                   dir_exists, timer_writes>>

\* AutoSaveEventListener.on_close; the closed view has no buffer left and
\* receives no further events
on_close(v) ==
    /\ valid[v]
    /\ run["main"].pc = "idle"
    /\ valid' = [valid EXCEPT ![v] = FALSE]
    /\ timers' = timers \ {v}
    /\ queued' = [queued EXCEPT ![v] = 0]
    /\ content' = [content EXCEPT ![v] = <<>>]
    /\ ret' = NoRet
    /\ UNCHANGED <<probe, config, file_name, scratch, stale, fresh, run, files, dir_exists,
                   timer_writes>>

\* AutoSaveWithAiCommand.is_enabled
is_enabled(v) == ~Truthy(file_name[v]) /\ Len(content[v]) > 0

\* AutoSaveWithAiCommand.run, on the main thread
run_command(v) ==
    /\ valid[v]
    /\ run["main"].pc = "idle"
    /\ is_enabled(v)
    /\ Begin("main", v)
    /\ UNCHANGED <<probe, config, valid, content, stale, fresh, queued>>

\* AutoSaveEventListener.on_pre_save, on the main thread
on_pre_save(v) ==
    /\ valid[v]
    /\ run["main"].pc = "idle"
    /\ config.overwrite_default_save
    /\ ~Truthy(file_name[v])
    /\ Begin("main", v)
    /\ UNCHANGED <<probe, config, valid, content, stale, fresh, queued>>

Next ==
    \/ \E v \in Views, c \in Contents : Modify(v, c)
    \/ \E v \in Views : on_modified_async(v)
    \/ \E v \in Views : auto_save_callback_stale(v)
    \/ \E v \in Views : auto_save_callback(v)
    \/ \E v \in Views : on_close(v)
    \/ \E v \in Views : run_command(v)
    \/ \E v \in Views : on_pre_save(v)
    \/ \E t \in Threads : provider_returns(t)

Spec == Init /\ [][Next]_vars

\* the host runs every callback that set_timeout_async has scheduled, although
\* the async thread is busy from time to time, and completion() comes back:
\* it is called with timeout=30
Fairness ==
    /\ \A v \in Views : SF_vars(auto_save_callback(v))
    /\ \A t \in Threads : WF_vars(provider_returns(t))

SpecLive == Init /\ [][Next]_vars /\ Fairness

\* ------------------------------------------- the functions on chosen inputs
MaxLen == 3

Alphabet == {"a", ".", "/", " "}

RECURSIVE StringsUpTo(_)
StringsUpTo(n) ==
    IF n = 0 THEN {<<>>}
    ELSE LET shorter == StringsUpTo(n - 1)
         IN  shorter \cup {Append(s, c) : s \in {x \in shorter : Len(x) = n - 1}, c \in Alphabet}

ProbeClock == Clock \cup { [Y |-> 1999, m |-> 12, d |-> 31, H |-> 23, M |-> 59, S |-> 59] }

\* reply texts: the short strings, and texts shaped like a timestamp name
ProbeReplies ==
    StringsUpTo(MaxLen)
    \cup {strftime(dt) \o DotTxt : dt \in ProbeClock}
    \cup {<<" ">> \o strftime(dt) \o DotTxt \o <<"\n">> : dt \in ProbeClock}
    \cup {strftime(dt) : dt \in ProbeClock}

ProbeOutcomes == [kind : Raises, text : {None}] \cup [kind : {"ok"}, text : ProbeReplies]

Quiet ==
    /\ config = Cfg(5, dir, TRUE, gpt4, key, None, base, TRUE)
    /\ valid = [v \in Views |-> TRUE]
    /\ file_name = [v \in Views |-> None]
    /\ content = [v \in Views |-> <<>>]
    /\ scratch = [v \in Views |-> TRUE]
    /\ timers = {}
    /\ stale = [v \in Views |-> 0]
    /\ fresh = [v \in Views |-> 0]
    /\ queued = [v \in Views |-> 0]
    /\ run = [t \in Threads |-> IdleRun]
    /\ ret = NoRet
    /\ files = << >>
    /\ dir_exists = FALSE
    /\ timer_writes = [v \in Views |-> 0]

\* raw names: separators, unsafe characters, underscores, dots and whitespace
SanitizeAlphabet == {"a", ".", "/", "\\", "_", " ", "\n", ":", "*"}

RECURSIVE StringsOver(_, _)
StringsOver(chars, n) ==
    IF n = 0 THEN {<<>>}
    ELSE LET shorter == StringsOver(chars, n - 1)
         IN  shorter \cup {Append(s, c) : s \in {x \in shorter : Len(x) = n - 1}, c \in chars}

InitFunctions ==
    /\ Quiet
    /\ \/ \E text \in StringsOver(SanitizeAlphabet, MaxLen) :
            probe = [fn |-> "sanitize_filename", text |-> text]
       \/ \E avail \in BOOLEAN, o \in ProbeOutcomes :
            probe = [fn |-> "generate_filename", avail |-> avail, outcome |-> o]
       \/ \E text \in ProbeReplies, dt \in ProbeClock :
            probe = [fn |-> "name", text |-> text, dt |-> dt]

\* LiteLLMClient.generate_filename applied to what completion() does
apply_generate_filename ==
    /\ probe.fn = "generate_filename"
    /\ probe' = [fn |-> "generate_filename returned", avail |-> probe.avail,
                 outcome |-> probe.outcome,
                 result |-> generate_filename(probe.avail, probe.outcome)]
    /\ UNCHANGED plugin

\* lines 172-185 applied to a reply text and to the clock: the name the
\* pipeline takes, and the name it takes at that time when the provider fails
apply_naming ==
    /\ probe.fn = "name"
    /\ LET ai == generate_filename(TRUE, [kind |-> "ok", text |-> probe.text]).value
       IN  probe' = [fn |-> "named", text |-> probe.text, dt |-> probe.dt, ai |-> ai,
                     scheme |-> IF Truthy(ai) THEN "ai" ELSE "fallback",
                     filename |-> ChooseFilename(ai, probe.dt),
                     fallback |-> ChooseFilename(None, probe.dt)]
    /\ UNCHANGED plugin

\* sanitize_filename applied to a raw name
apply_sanitize_filename ==
    /\ probe.fn = "sanitize_filename"
    /\ probe' = [fn |-> "sanitize_filename returned", text |-> probe.text,
                 result |-> sanitize_filename(probe.text)]
    /\ UNCHANGED plugin

NextFunctions == apply_generate_filename \/ apply_naming \/ apply_sanitize_filename

SpecFunctions == InitFunctions /\ [][NextFunctions]_vars

\* ------------------------------------------------------------ properties
\* scheduled, not-yet-fired callbacks of a view
Outstanding(v) == stale[v] + fresh[v]

\* this step is a callback of view v firing
CallbackFires(v) == stale'[v] + fresh'[v] < stale[v] + fresh[v]

\* this step is on_modified_async running for view v
EditHandled(v) ==
    \/ on_modified_async(v)
    \/ \E c \in Contents : Modify(v, c) /\ queued' = queued

\* this step starts no pipeline run, writes nothing and leaves the timer table alone
NoOpStep ==
    /\ ret' = NoRet
    /\ UNCHANGED <<config, valid, file_name, content, scratch, timers, queued, run, files,
                   dir_exists, timer_writes>>

\* C1: however many edits arm callbacks for an unnamed view before the first
\* fires, and in whatever order the callbacks fire, at most one run started
\* by a callback completes with a write for that view.
C1_OneTimerWrite == \A v \in Views : timer_writes[v] <= 1

\* a callback-started run has written while another callback is still outstanding
C1_Witness == \E v \in Views : timer_writes[v] = 1 /\ Outstanding(v) >= 1

\* C2: a callback that fires after a later edit of its view has re-armed the
\* timer is a silent no-op: no pipeline run, no file, timer table unchanged.
C2_StaleCallbackNoOp == [][\A v \in Views : stale'[v] < stale[v] => NoOpStep]_vars

\* C3: once a view is closed its entry is gone from the timer table, and every
\* callback that fires for the closed view is a no-op.
C3_ClosedViewInert ==
    /\ [](\A v \in Views : ~valid[v] => v \notin timers)
    /\ [][\A v \in Views : (~valid[v] /\ CallbackFires(v)) => NoOpStep]_vars

\* a closed view with two callbacks still to fire
C3_Witness == \E v \in Views : ~valid[v] /\ Outstanding(v) >= 2

\* C4: on_modified_async records the timer and schedules one callback exactly
\* when auto_save_timer > 0 and the view is unnamed; otherwise it leaves the
\* timer table and the scheduled callbacks unchanged; nothing else arms a timer.
C4_ArmsExactlyWhen ==
    [][\A v \in Views :
        /\ EditHandled(v) =>
             IF config.auto_save_timer > 0 /\ ~Truthy(file_name[v])
             THEN v \in timers' /\ Outstanding(v)' = Outstanding(v) + 1
             ELSE UNCHANGED <<timers, stale, fresh>>
        /\ ((v \in timers' /\ v \notin timers) \/ Outstanding(v)' > Outstanding(v))
             => EditHandled(v)]_vars

\* an edit has armed the timer of an unnamed view
C4_Witness ==
    \E v \in Views : v \in timers /\ fresh[v] = 1 /\ config.auto_save_timer > 0
                     /\ ~Truthy(file_name[v])

\* C5 as stated: at most one scheduled, not-yet-fired callback per view.
C5_OneOutstanding == \A v \in Views : Outstanding(v) <= 1

\* C5 amended: callbacks are not cancelled and several can be outstanding for
\* a view, but one that fires while the timer table has no entry for its view
\* is a no-op.
C5_NoEntryNoRun ==
    [][\A v \in Views : (CallbackFires(v) /\ v \notin timers) => NoOpStep]_vars

\* an open, unnamed view with a callback outstanding and no entry in the table
C5_Witness ==
    \E v \in Views : valid[v] /\ ~Truthy(file_name[v]) /\ v \notin timers
                     /\ Outstanding(v) >= 1

\* C6: two pipeline runs for the same view are never in progress together.
C6_NoOverlap ==
    \A t1, t2 \in Threads :
        (t1 # t2 /\ run[t1].pc = "call" /\ run[t2].pc = "call")
            => run[t1].view # run[t2].view

\* the timestamp names the clock can give
FallbackNames == {get_timestamp_filename(dt) : dt \in Clock}

\* C7: a run whose provider call gave no name does not abort: it takes the
\* timestamp name, resolves it against the save directory and writes the
\* content there, returning True; it returns False only when the write fails.
C7_FallbackOnFailure ==
    [][ret'.failed =>
        \E filename \in FallbackNames :
            LET full_path == resolve_path(filename, DOMAIN files)
            IN  \/ /\ ret'.result = "True"
                   /\ full_path \in DOMAIN files'
                   /\ files'[full_path] \in {content[ret'.view]} \cup {run[t].content : t \in Threads}
                   /\ Strip(files'[full_path]) # <<>>
                   /\ file_name'[ret'.view] = full_path
                \/ /\ ret'.result = "False"
                   /\ ret'.notice = "error"
                   /\ UNCHANGED <<files, file_name>>]_vars

\* a run fell back to the timestamp name and returned True
C7_Witness == ret.failed /\ ret.result = "True"

\* <8 digits>-<6 digits>.txt
IsTimestampText(s) ==
    /\ Len(s) = 19
    /\ \A i \in 1..8 : IsDigit(s[i])
    /\ s[9] = "-"
    /\ \A i \in 10..15 : IsDigit(s[i])
    /\ SubSeq(s, 16, 19) = <<".", "t", "x", "t">>

\* C8 as stated: an AI-derived name differs from every fallback name, and a
\* fallback name does not start with the prefix of the AI-derived names.
C8_SchemesDisjoint ==
    (probe.fn = "named" /\ probe.scheme = "ai") =>
        /\ \A dt \in ProbeClock : probe.filename # get_timestamp_filename(dt)
        /\ ~StartsWith(probe.fallback, AutoNotes)

\* C8 amended: both schemes use the prefix auto-notes-; the fallback name is
\* the prefix followed by <8 digits>-<6 digits>.txt, and an AI-derived name
\* equals a fallback name only when the sanitized reply has that same form.
C8_SchemesSharePrefix ==
    probe.fn = "named" =>
        /\ StartsWith(probe.fallback, AutoNotes)
        /\ IsTimestampText(SubSeq(probe.fallback, Len(AutoNotes) + 1, Len(probe.fallback)))
        /\ probe.scheme = "fallback" => probe.filename = probe.fallback
        /\ probe.scheme = "ai" =>
             /\ StartsWith(probe.filename, AutoNotes)
             /\ \A dt \in ProbeClock :
                    probe.filename = get_timestamp_filename(dt)
                        => IsTimestampText(sanitize_filename(probe.ai))

\* an AI-derived name that is also the fallback name of that moment
C8_Witness ==
    probe.fn = "named" /\ probe.scheme = "ai" /\ probe.filename = probe.fallback

\* text with the whitespace at both ends removed
IsTrimOf(val, text) ==
    /\ val = <<>> \/ (~IsSpace(val[1]) /\ ~IsSpace(val[Len(val)]))
    /\ \E i \in 0..Len(text) :
          /\ i + Len(val) <= Len(text)
          /\ SubSeq(text, i + 1, i + Len(val)) = val
          /\ \A j \in (1..i) \cup ((i + Len(val) + 1)..Len(text)) : IsSpace(text[j])

\* C9: generate_filename lets no exception out: whatever completion() does it
\* returns None, and when completion() returns a reply it returns the
\* trimmed reply text.
C9_NeverRaises ==
    probe.fn = "generate_filename returned" =>
        /\ ~probe.result.raised
        /\ IF probe.avail /\ probe.outcome.kind = "ok"
           THEN IsTrimOf(probe.result.value, probe.outcome.text)
           ELSE probe.result.value = None

\* completion() raised on a malformed body and generate_filename returned
C9_Witness ==
    /\ probe.fn = "generate_filename returned"
    /\ probe.avail
    /\ probe.outcome.kind = "JSONDecodeError"

\* C10: with no API key or no API base configured, generate_filename
\* returns None without reaching the provider call.
C10_ShortCircuit ==
    \A t \in Threads :
        run[t].pc = "call" => Truthy(ApiKey(config)) /\ Truthy(config.api_base)

\* this step ends a run of save_file_with_ai_name: it returned, or an
\* exception left it
RunEnds == ret'.result # "none"

\* C11: with save_directory not configured, a run on an unnamed view shows an
\* error and returns False; no provider call is made, no directory is created,
\* no file is written, the view stays unnamed, and the failure schedules no
\* further attempt.
C11_NoDirectoryAborts ==
    /\ [](~Truthy(config.save_directory) =>
            /\ \A t \in Threads : run[t].pc = "idle"
            /\ ~dir_exists
            /\ DOMAIN files = {})
    /\ [][(RunEnds /\ ~Truthy(config.save_directory) /\ ~Truthy(file_name[ret'.view])) =>
            /\ ret'.result = "False"
            /\ ret'.notice = "error"
            /\ UNCHANGED <<run, files, dir_exists, file_name, scratch, content>>
            /\ \A v \in Views : Outstanding(v)' <= Outstanding(v)]_vars

\* a run with no save directory has returned False with the error shown
C11_Witness ==
    /\ ~Truthy(config.save_directory)
    /\ ret.result = "False"
    /\ ret.notice = "error"
    /\ Strip(content[ret.view]) # <<>>

\* this step ends a run in which os.makedirs or the write failed: with a save
\* directory configured an exception leaves the run only from os.makedirs,
\* and the only error shown is that of the failed write
FilesystemError ==
    /\ RunEnds
    /\ Truthy(config.save_directory)
    /\ (ret'.result = "raised" \/ ret'.notice = "error")

\* C12: a run in which the directory cannot be created or the write fails
\* shows an error, returns False, and leaves the view unnamed with its scratch
\* flag as it was.
C12_FilesystemErrorSurfaced ==
    [][FilesystemError =>
        /\ ret'.result = "False"
        /\ ret'.notice = "error"
        /\ file_name'[ret'.view] = file_name[ret'.view]
        /\ scratch'[ret'.view] = scratch[ret'.view]]_vars

\* this step is a whole run, from its call to its end, with no provider call
RunStartsAndEnds == RunEnds /\ run' = run

\* C13: a run on a view that is named, or whose text is empty or only
\* whitespace, returns False, shows nothing, calls no provider, creates no
\* directory, writes no file and leaves the view as it was, under every
\* configuration.
C13_NamedOrEmptyNoOp ==
    [][(/\ RunStartsAndEnds
        /\ \/ Truthy(file_name[ret'.view])
           \/ Strip(content[ret'.view]) = <<>>) =>
            /\ ret'.result = "False"
            /\ ret'.notice = "none"
            /\ UNCHANGED <<files, dir_exists, file_name, scratch>>]_vars

\* the names a run of this session can choose before path resolution
ChosenNames ==
    FallbackNames
    \cup {ai_derived_filename(Strip(text)) : text \in {r \in Replies : Truthy(Strip(r))}}

\* p is filename when nothing exists there, and otherwise stem-n.ext for the
\* smallest n >= 1 at which nothing exists
IsResolutionOf(p, filename, existing) ==
    \/ filename \notin existing /\ p = filename
    \/ /\ filename \in existing
       /\ \E n \in 1..(Cardinality(existing) + 1) :
             /\ p = Numbered(filename, n)
             /\ p \notin existing
             /\ \A m \in 1..(n - 1) : Numbered(filename, m) \in existing

Forbidden == {"/", "\\"} \cup UnsafeChars

\* C15: sanitize_filename returns a non-empty name with a '.' and with none of
\* / \ < > : " | ? *; a raw name that is empty, only whitespace, or made only
\* of separators, removed characters and underscores gives untitled.txt; a raw
\* name without '.' gives a name that ends in .txt, its only '.'.
C15_SanitizeSafe ==
    probe.fn = "sanitize_filename returned" =>
        LET x == probe.text
            y == probe.result
        IN  /\ y # <<>>
            /\ Contains(y, ".")
            /\ \A i \in 1..Len(y) : y[i] \notin Forbidden
            /\ (\A i \in 1..Len(x) : IsSpace(x[i])) => y = Untitled
            /\ (\A i \in 1..Len(x) : x[i] \in Forbidden \cup {"_"}) => y = Untitled
            /\ ~Contains(x, ".") =>
                  /\ Len(y) > 4
                  /\ SubSeq(y, Len(y) - 3, Len(y)) = DotTxt
                  /\ ~Contains(SubSeq(y, 1, Len(y) - 4), ".")

\* a raw name of separators and removed characters came back as untitled.txt
C15_Witness ==
    /\ probe.fn = "sanitize_filename returned"
    /\ Contains(probe.text, "/")
    /\ Contains(probe.text, ":")
    /\ probe.result = Untitled

\* this step wrote the text a run of view v had read to a new path, retargeted
\* the view to that path and cleared its scratch flag
SavedAndRetargeted(v) ==
    \E p \in DOMAIN files' :
        /\ p \notin DOMAIN files
        /\ files'[p] \in {content[v]} \cup {run[t].content : t \in Threads}
        /\ file_name'[v] = p
        /\ ~scratch'[v]

\* C16: a run returns True exactly when the text was written to the resolved
\* path and the view was retargeted to it with the scratch flag cleared; when
\* it returns False the view is unnamed and the run has written no file.
C16_TrueIffSaved ==
    [][RunEnds =>
        /\ ret'.result = "True" <=> SavedAndRetargeted(ret'.view)
        /\ ret'.result = "False" =>
              /\ ~Truthy(file_name'[ret'.view])
              /\ files' = files]_vars

\* this step ends a run that a callback of view v started
CallbackRunEnds(v) ==
    /\ RunEnds
    /\ ret'.view = v
    /\ run'["async"].pc = "idle"
    /\ (CallbackFires(v) \/ run["async"].view = v)

\* C17: the run started by a callback that passed its checks is followed by
\* the removal of the view's entry from the timer table, however the run ends;
\* and a view with no callback left to fire and no callback run in progress
\* has no entry in the timer table.
C17_RecordOnlyWhileOpen ==
    /\ [][\A v \in Views : CallbackRunEnds(v) => v \notin timers']_vars
    /\ [](\A v \in Views :
            (Outstanding(v) = 0 /\ run["async"].view # v) => v \notin timers)

\* the latest edit of an open, unnamed view has recorded the timer and its
\* callback is still to fire, with a positive timer and a save directory set
Armed(v) ==
    /\ valid[v]
    /\ ~Truthy(file_name[v])
    /\ v \in timers
    /\ fresh[v] = 1
    /\ config.auto_save_timer > 0
    /\ Truthy(config.save_directory)

\* the write of a run of view v has just failed
WriteFailed(v) == ret.view = v /\ ret.result = "False" /\ ret.notice = "error"

\* os.makedirs has just failed in a run of view v
MakedirsFailed(v) == ret.view = v /\ ret.result = "raised"

\* C18 as stated: an armed view with non-empty text that is not closed and
\* whose write does not fail is eventually named.
C18_EventuallyNamed ==
    \A v \in Views :
        (Armed(v) /\ content[v] # <<>>)
            ~> (Truthy(file_name[v]) \/ ~valid[v] \/ WriteFailed(v))

\* C18 amended: an armed view is eventually named provided that it is not
\* closed, that its text has something other than whitespace whenever a run
\* reads it, that the save directory can be created, and that the write does
\* not fail.
C18_EventuallyNamedIfSavable ==
    \A v \in Views :
        (Armed(v) /\ Strip(content[v]) # <<>>)
            ~> (\/ Truthy(file_name[v])
                \/ ~valid[v]
                \/ WriteFailed(v)
                \/ MakedirsFailed(v)
                \/ Strip(content[v]) = <<>>)

\* an open view with text has been named by a run that its callback started
C18_Witness ==
    \E v \in Views :
        /\ valid[v]
        /\ Truthy(file_name[v])
        /\ timer_writes[v] = 1
        /\ Strip(content[v]) # <<>>
        /\ ret.view = v
        /\ ret.result = "True"

TypeOK ==
    /\ config \in Configs
    /\ timers \subseteq Views
    /\ Total(stale, Views) + Total(fresh, Views) <= MaxScheduled
    /\ Total(queued, Views) <= MaxQueued
    /\ \A v \in Views : fresh[v] \in {0, 1}
    /\ \A t \in Threads : run[t].pc \in {"idle", "call"}

====
